---- MODULE Spec2Model ----
(***************************************************************************)
(* Model of src/model.py: the Discretizable capability (store, discretize, *)
(* restore, clip), the TertiaryLinear and MultiActivationModule layers,    *)
(* the ConcatLayer and the Model that chains them.                         *)
(*                                                                         *)
(* Numbers.  A TertiaryLinear weight entry is a fixed-point integer in     *)
(* fifths (One = 1.0, Lambd = 0.4).  A MultiActivationModule coefficient   *)
(* is the exact real  s * sqrt(n / d)  kept as the record [s, n, d] with   *)
(* n/d in lowest terms, so that division by an L2 norm is exact; s = 2 is  *)
(* NaN (the result of 0 / 0).  Floating-point rounding is not modelled.    *)
(***************************************************************************)
EXTENDS Integers, Sequences, FiniteSets, TLC

VARIABLES
    \* one Discretizable layer and the calls made on it
    layer, W0, calls, before, onlyDR, paired,
    \* one Model: its arguments, its blocks, the calls made on it
    layer_sizes, shared_weight, rng, pc, network, netCall, netBefore, netArg, out

layerVars == <<layer, W0, calls, before, onlyDR, paired>>
netVars ==
    <<layer_sizes, shared_weight, rng, pc, network, netCall, netBefore, netArg, out>>
vars == <<layerVars, netVars>>

(* ------------------------------ bounds -------------------------------- *)

\* TertiaryLinear entries range over -MaxT..MaxT fifths (up to +-1.2).
MaxT == 6
\* Input width of the TertiaryLinear layer under test (its n_out is 1).
MaxIn == 1
\* MultiActivationModule coefficients range over the integers -1..MaxM.
MaxM == 1
\* Uninitialised memory reads as a tensor filled with one value of -MaxG..MaxG.
MaxG == 1
\* Layer sizes of a Model are 1..MaxSize (1..MaxNetSize where its weights are
\* followed), and it is given at most MaxLen of them.
MaxSize == 4
MaxNetSize == 1
MaxLen == 3
\* The shared weight holds 1..MaxShared values.
MaxShared == 2
\* Inputs of forward have 1..MaxRank dimensions, the leading ones 1..MaxBatch.
MaxRank == 3
MaxBatch == 2
\* Random initialisations are drawn with a seed of 0..MaxSeed.  Where the
\* weights of a Model are followed, init_weights is its first call or none.
MaxSeed == 1
\* uniform_(0, 1) draws one of 0/UniformGrid .. (UniformGrid-1)/UniformGrid.
UniformGrid == 3

(* ------------------------- program constants -------------------------- *)

\* 1.0 in fifths: the default bounds of hardtanh and the magnitude of sign.
One == 5
\* lambd = 0.4 in fifths.
Lambd == 2

available_act_functions ==
    <<"relu", "sigmoid", "tanh", "gaussian (standard)", "step">>

n_funcs == Len(available_act_functions)

(* ------------------- exact reals s * sqrt(n / d) ---------------------- *)

RECURSIVE GCD(_, _)
GCD(a, b) == IF b = 0 THEN a ELSE GCD(b, a % b)

NaN == [s |-> 2, n |-> 0, d |-> 1]

IsNaN(x) == x.s = 2

\* The rational n / d in lowest terms.
Ratio(n, d) == LET g == GCD(n, d) IN [n |-> n \div g, d |-> d \div g]

\* The real s * sqrt(n / d).
Root(s, n, d) ==
    IF n = 0 \/ s = 0 THEN [s |-> 0, n |-> 0, d |-> 1]
    ELSE LET q == Ratio(n, d) IN [s |-> s, n |-> q.n, d |-> q.d]

\* The real k / q for integers k and q > 0.
FromRatio(k, q) ==
    Root(IF k > 0 THEN 1 ELSE IF k < 0 THEN -1 ELSE 0, k * k, q * q)

FromInt(k) == FromRatio(k, 1)

\* x > y on non-NaN reals, as a float comparison.
Greater(x, y) ==
    IF x.s # y.s THEN x.s > y.s
    ELSE IF x.s = 1 THEN x.n * y.d > y.n * x.d
    ELSE IF x.s = -1 THEN x.n * y.d < y.n * x.d
    ELSE FALSE

(* ------------------------------ tensors ------------------------------- *)

Rows(t) == Len(t)
Cols(t) == Len(t[1])

Fill(rows, cols, v) == [i \in 1..rows |-> [j \in 1..cols |-> v]]

Map(F(_), t) == [i \in 1..Rows(t) |-> [j \in 1..Cols(t) |-> F(t[i][j])]]

\* torch.empty_like: a buffer whose content is not defined until written.
Uninit == <<>>

(* -------------------------- TertiaryLinear ---------------------------- *)

\* hardshrink with the dead zone open at its ends.
hardshrink_open(x, lambd) == IF x > -lambd /\ x < lambd THEN 0 ELSE x

\* torch.nn.functional.hardshrink: x where |x| > lambd, else 0.
hardshrink(x, lambd) == IF x >= -lambd /\ x <= lambd THEN 0 ELSE x

\* torch.sign, the result 1.0 being One in fixed point.
sign(x) == IF x > 0 THEN One ELSE IF x < 0 THEN -One ELSE 0

\* hardtanh with min_val = 0.
hardtanh_nonneg(x) == IF x > One THEN One ELSE IF x < 0 THEN 0 ELSE x

\* torch.nn.functional.hardtanh with its default bounds -1.0 and 1.0.
hardtanh(x) == IF x > One THEN One ELSE IF x < -One THEN -One ELSE x

TertiaryLinear_effective_weight(w) ==
    LET ternary(x) == sign(hardshrink(x, Lambd)) IN Map(ternary, w)

Discretizable_clip_weight(w) == Map(hardtanh, w)

(* ----------------------- MultiActivationModule ------------------------ *)

\* Sum of the squares of rows 1..k of column c, as [nan, n, d].
RECURSIVE SumSq(_, _, _)
SumSq(w, c, k) ==
    IF k = 0 THEN [nan |-> FALSE, n |-> 0, d |-> 1]
    ELSE LET rest == SumSq(w, c, k - 1)
             x == w[k][c]
         IN  IF rest.nan \/ IsNaN(x) THEN [nan |-> TRUE, n |-> 0, d |-> 1]
             ELSE LET q == Ratio(rest.n * x.d + x.n * rest.d, rest.d * x.d)
                  IN  [nan |-> FALSE, n |-> q.n, d |-> q.d]

\* torch.norm(w, dim=0): the squared L2 norm of each column.
norm(w) == [c \in 1..Cols(w) |-> SumSq(w, c, Rows(w))]

\* Division by the squared norm instead of the norm.
DivideBySquare(x, sq) ==
    IF IsNaN(x) \/ sq.nan \/ sq.n = 0 THEN NaN
    ELSE Root(x.s, x.n * sq.d * sq.d, x.d * sq.n * sq.n)

\* x / sqrt(sq.n / sq.d); 0 / 0 is NaN.  A column of norm 0 holds only
\* zeros, so no other division by zero arises.
Divide(x, sq) ==
    IF IsNaN(x) \/ sq.nan \/ sq.n = 0 THEN NaN
    ELSE Root(x.s, x.n * sq.d, x.d * sq.n)

MultiActivationModule_clip_weight(w) ==
    LET nrm == norm(w)
    IN  [f \in 1..Rows(w) |-> [c \in 1..Cols(w) |-> Divide(w[f][c], nrm[c])]]

\* A scan that keeps the last maximum.
RECURSIVE MaxIndexLast(_, _, _, _)
MaxIndexLast(w, c, k, best) ==
    IF k > Rows(w) THEN best
    ELSE IF IsNaN(w[best][c]) THEN best
    ELSE IF IsNaN(w[k][c]) \/ ~Greater(w[best][c], w[k][c])
         THEN MaxIndexLast(w, c, k + 1, k)
         ELSE MaxIndexLast(w, c, k + 1, best)

\* torch.max(w, 0).indices for column c: a scan that keeps the first
\* maximum, and the first NaN when there is one.
RECURSIVE MaxIndex(_, _, _, _)
MaxIndex(w, c, k, best) ==
    IF k > Rows(w) THEN best
    ELSE IF IsNaN(w[best][c]) THEN best
    ELSE IF IsNaN(w[k][c]) \/ Greater(w[k][c], w[best][c])
         THEN MaxIndex(w, c, k + 1, k)
         ELSE MaxIndex(w, c, k + 1, best)

indices(w) == [c \in 1..Cols(w) |-> MaxIndex(w, c, 2, 1)]

\* torch.nn.functional.one_hot(idx, n).T.float()
one_hot_T(idx, n) ==
    [f \in 1..n |-> [c \in 1..Len(idx) |->
        IF idx[c] = f THEN FromInt(1) ELSE FromInt(0)]]

MultiActivationModule_effective_weight(w) == one_hot_T(indices(w), n_funcs)

(* --------------------------- Discretizable ---------------------------- *)

IsTernary(m) == m.kind = "TertiaryLinear"

effective_weight(m) ==
    IF IsTernary(m) THEN TertiaryLinear_effective_weight(m.weight)
    ELSE MultiActivationModule_effective_weight(m.weight)

store_weight(m) == [m EXCEPT !.stored = m.weight]

\* discretize_weight without its store_weight.
discretize_weight_unsaved(m) == [m EXCEPT !.weight = effective_weight(m)]

discretize_weight(m) ==
    LET s == store_weight(m) IN [s EXCEPT !.weight = effective_weight(s)]

\* The contents an unwritten buffer of m's shape may turn out to hold.
GarbageOf(m, g) ==
    Fill(Rows(m.weight), Cols(m.weight), IF IsTernary(m) THEN g ELSE FromInt(g))

\* The fills that reading m's buffer can tell apart.
Fills(m) == IF m.stored = Uninit THEN -MaxG..MaxG ELSE {0}

\* restore_weight with the copy reversed.
restore_weight_reversed(m, g) == [m EXCEPT !.stored = m.weight]

\* g is the fill the stored buffer turns out to hold when it was never written.
restore_weight(m, g) ==
    LET held == IF m.stored = Uninit THEN GarbageOf(m, g) ELSE m.stored
    IN  [m EXCEPT !.weight = held, !.stored = held]

clip_weight(m) ==
    IF IsTernary(m)
    THEN [m EXCEPT !.weight = Discretizable_clip_weight(m.weight)]
    ELSE [m EXCEPT !.weight = MultiActivationModule_clip_weight(m.weight)]


(* --------------------------- construction ----------------------------- *)

\* torch.nn.Linear draws its weight uniformly from [-1/sqrt(n_in), 1/sqrt(n_in)]:
\* the largest magnitude, in fifths, that this allows.
LinearBound(n_in) ==
    CHOOSE b \in 0..One :
        b * b * n_in <= One * One /\ (b + 1) * (b + 1) * n_in > One * One

Linear(n_in, n_out, seed) ==
    LET b == LinearBound(n_in)
    IN  [i \in 1..n_out |-> [j \in 1..n_in |->
            ((seed + 2 * i + 3 * j) % (2 * b + 1)) - b]]

TertiaryLinear(n_in, n_out, seed) ==
    [kind |-> "TertiaryLinear", weight |-> Linear(n_in, n_out, seed),
     stored |-> Uninit]

MultiActivationModule(n_out) ==
    [kind |-> "MultiActivationModule",
     weight |-> Fill(n_funcs, n_out, FromInt(0)), stored |-> Uninit]

ConcatLayer(n_in, n_out, sw, seed) ==
    [linear |-> TertiaryLinear(n_in, n_out, seed),
     activation |-> MultiActivationModule(n_out),
     shared_weight |-> sw]

\* The loop without its n_in += n_out.
RECURSIVE BuildLayersFlat(_, _, _, _, _)
BuildLayersFlat(sizes, k, n_in, sw, seed) ==
    IF k > Len(sizes) THEN <<>>
    ELSE <<ConcatLayer(n_in, sizes[k], sw, seed)>>
         \o BuildLayersFlat(sizes, k + 1, n_in, sw, seed)

\* The loop of Model.__init__ from the k-th size on.
RECURSIVE BuildLayers(_, _, _, _, _)
BuildLayers(sizes, k, n_in, sw, seed) ==
    IF k > Len(sizes) THEN <<>>
    ELSE <<ConcatLayer(n_in, sizes[k], sw, seed)>>
         \o BuildLayers(sizes, k + 1, n_in + sizes[k], sw, seed)

(* ------------------------------ forward ------------------------------- *)

Ok(shape, seen) == [ok |-> TRUE, shape |-> shape, error |-> "", seen |-> seen]
Err(what, seen) == [ok |-> FALSE, shape |-> <<>>, error |-> what, seen |-> seen]

Front(s) == SubSeq(s, 1, Len(s) - 1)
Last(s) == s[Len(s)]

\* The shape two tensors broadcast to, <<>> when they do not.
Broadcast(a, b) ==
    LET n == IF Len(a) > Len(b) THEN Len(a) ELSE Len(b)
        pad(t) == [i \in 1..n |-> IF i <= n - Len(t) THEN 1 ELSE t[i - (n - Len(t))]]
        A == pad(a)
        B == pad(b)
    IN  IF \A i \in 1..n : A[i] = B[i] \/ A[i] = 1 \/ B[i] = 1
        THEN [i \in 1..n |-> IF A[i] = 1 THEN B[i] ELSE A[i]]
        ELSE <<>>

\* ConcatLayer.forward on an input of shape x, with the widths seen so far.
ConcatLayer_forward(m, x, seen) ==
    LET w == m.linear.weight
        sw == m.shared_weight
        here == Append(seen, Last(x))
        linear0 == Front(x) \o <<Rows(w)>>
        scale == <<sw[1], 1, 1>> \o Tail(sw)
        linear == Broadcast(linear0, scale)
        inner_out == Broadcast(linear, <<Cols(m.activation.weight)>>)
    IN  IF Last(x) # Cols(w) THEN Err("matmul", here)
        ELSE IF Len(sw) = 0 THEN Err("index", here)
        ELSE IF linear = <<>> \/ inner_out = <<>> THEN Err("broadcast", here)
        ELSE IF Len(inner_out) # Len(x) \/ Front(inner_out) # Front(x)
             THEN Err("cat", here)
        ELSE Ok(Front(x) \o <<Last(x) + Last(inner_out)>>, here)

\* torch.nn.Sequential: the blocks from the k-th on, one after the other.
RECURSIVE Sequential(_, _, _)
Sequential(net, k, r) ==
    IF k > Len(net) \/ ~r.ok THEN r
    ELSE Sequential(net, k + 1, ConcatLayer_forward(net[k], r.shape, r.seen))

Model_n_out(sizes) == Last(sizes)

Model_forward(net, sizes, x) ==
    LET net_out == Sequential(net, 1, Ok(x, <<>>))
        n == Model_n_out(sizes)
        width == IF Last(net_out.shape) < n THEN Last(net_out.shape) ELSE n
    IN  IF ~net_out.ok THEN net_out
        ELSE Ok(Front(net_out.shape) \o <<width>>, net_out.seen)

(* ----------------- applying a function to every module ---------------- *)

\* torch.nn.Module.apply visits the children first, then the module.
RECURSIVE BlockModules(_, _)
BlockModules(n, k) ==
    IF k > n THEN <<>>
    ELSE << [type |-> "Linear", block |-> k],
            [type |-> "TertiaryLinear", block |-> k],
            [type |-> "MultiActivationModule", block |-> k],
            [type |-> "ConcatLayer", block |-> k] >> \o BlockModules(n, k + 1)

\* The modules when the activation is not registered as a child.
RECURSIVE BlockModulesLinearOnly(_, _)
BlockModulesLinearOnly(n, k) ==
    IF k > n THEN <<>>
    ELSE << [type |-> "Linear", block |-> k],
            [type |-> "TertiaryLinear", block |-> k],
            [type |-> "ConcatLayer", block |-> k] >>
         \o BlockModulesLinearOnly(n, k + 1)

modules_without_activation(net) ==
    BlockModulesLinearOnly(Len(net), 1)
    \o << [type |-> "Sequential", block |-> 0],
          [type |-> "Softmax", block |-> 0],
          [type |-> "Model", block |-> 0] >>

modules(net) ==
    BlockModules(Len(net), 1)
    \o << [type |-> "Sequential", block |-> 0],
          [type |-> "Softmax", block |-> 0],
          [type |-> "Model", block |-> 0] >>

DiscretizableTypes == {"TertiaryLinear", "MultiActivationModule"}

hasattr(type, name) ==
    /\ type \in DiscretizableTypes
    /\ name \in {"discretize_weight", "store_weight", "restore_weight", "clip_weight"}

\* torch.nn.init.normal_ and uniform_, drawn with a seed.
normal_(w, seed) ==
    [i \in 1..Rows(w) |-> [j \in 1..Cols(w) |->
        ((seed + 2 * i + 3 * j + Cols(w)) % (2 * MaxT + 1)) - MaxT]]

uniform_(w, seed) ==
    [f \in 1..Rows(w) |-> [c \in 1..Cols(w) |->
        FromRatio((seed + f + 2 * c) % UniformGrid, UniformGrid)]]

weight_init(m, seed) ==
    IF m.kind = "TertiaryLinear" THEN [m EXCEPT !.weight = normal_(@, seed)]
    ELSE [m EXCEPT !.weight = uniform_(@, seed)]

\* The method fn of the Discretizable layer m; arg is the seed of a random
\* initialisation or the fill of an unwritten buffer.
Method(fn, m, arg) ==
    CASE fn = "discretize_weight" -> discretize_weight(m)
      [] fn = "restore_weight" -> restore_weight(m, arg)
      [] fn = "clip_weight" -> clip_weight(m)
      [] fn = "weight_init" -> weight_init(m, arg)

\* The module-level functions discretize_weight, restore_weight, clip_weight
\* and weight_init, called by apply on module v of net.
Visit(fn, net, v, arg) ==
    LET has == IF fn = "weight_init" THEN v.type \in DiscretizableTypes
               ELSE hasattr(v.type, fn)
    IN  IF ~has THEN net
        ELSE IF v.type = "TertiaryLinear"
        THEN [net EXCEPT ![v.block].linear = Method(fn, @, arg)]
        ELSE [net EXCEPT ![v.block].activation = Method(fn, @, arg)]

RECURSIVE apply(_, _, _, _)
apply(fn, net, order, arg) ==
    IF order = <<>> THEN net
    ELSE apply(fn, Visit(fn, net, Head(order), arg), Tail(order), arg)

(* ------------------ one layer and its lifecycle calls ----------------- *)

TVals == -MaxT..MaxT
MVals == {FromInt(k) : k \in -1..MaxM}

NoLayer == [kind |-> "none", weight |-> <<>>, stored |-> <<>>]
NoOut == [x |-> <<>>, res |-> Err("none", <<>>)]

\* A layer of either kind whose weight is whatever training has made of it.
Layers ==
    UNION {{[TertiaryLinear(n_in, 1, 0) EXCEPT !.weight = w] :
                w \in [1..1 -> [1..n_in -> TVals]]} : n_in \in 1..MaxIn}
    \cup {[MultiActivationModule(1) EXCEPT !.weight = w] :
                w \in [1..n_funcs -> [1..1 -> MVals]]}

NoModel ==
    /\ layer_sizes = <<>>
    /\ shared_weight = <<>>
    /\ rng = 0
    /\ pc = "none"
    /\ network = <<>>
    /\ netCall = "none"
    /\ netBefore = <<>>
    /\ netArg = 0
    /\ out = NoOut

Init ==
    /\ layer \in Layers
    /\ W0 = layer.weight
    /\ calls = <<>>
    /\ before = layer
    /\ onlyDR = TRUE
    /\ paired = TRUE
    /\ NoModel

\* The names of the last two calls, newest first.
Called(op) == <<op>> \o (IF calls = <<>> THEN <<>> ELSE <<calls[1]>>)

CallStore ==
    /\ layer # NoLayer
    /\ layer' = store_weight(layer)
    /\ calls' = Called("store")
    /\ before' = layer
    /\ onlyDR' = FALSE
    /\ UNCHANGED <<W0, paired, netVars>>

CallDiscretize ==
    /\ layer # NoLayer
    /\ layer' = discretize_weight(layer)
    /\ calls' = Called("discretize")
    /\ before' = layer
    /\ paired' = (paired /\ (calls = <<>> \/ calls[1] = "restore"))
    /\ UNCHANGED <<W0, onlyDR, netVars>>

CallRestore ==
    /\ layer # NoLayer
    /\ \E g \in Fills(layer) : layer' = restore_weight(layer, g)
    /\ calls' = Called("restore")
    /\ before' = layer
    /\ paired' = (paired /\ calls # <<>>)
    /\ UNCHANGED <<W0, onlyDR, netVars>>

CallClip ==
    /\ layer # NoLayer
    /\ layer' = clip_weight(layer)
    /\ calls' = Called("clip")
    /\ before' = layer
    /\ onlyDR' = FALSE
    /\ UNCHANGED <<W0, paired, netVars>>

Next == CallStore \/ CallDiscretize \/ CallRestore \/ CallClip

Spec == Init /\ [][Next]_vars

(* ------------------- one Model and its lifecycle calls ---------------- *)

NoLayerUnderTest ==
    /\ layer = NoLayer
    /\ W0 = <<>>
    /\ calls = <<>>
    /\ before = NoLayer
    /\ onlyDR = TRUE
    /\ paired = TRUE

\* The sequences of at most len sizes, each in 1..size.
SizeLists(len, size) == UNION {[1..n -> 1..size] : n \in 0..len}

SharedShapes == {<<>>} \cup {<<n>> : n \in 1..MaxShared}

XShapes ==
    UNION {{lead \o <<n>> : lead \in [1..(r - 1) -> 1..MaxBatch], n \in 1..MaxSize} :
              r \in 1..MaxRank}

\* Before Model(shared_weight, *layer_sizes) is called, the random generator
\* being seeded with one of seeds.
Start(sizes, shared, seeds) ==
    /\ layer_sizes \in sizes
    /\ shared_weight \in shared
    /\ rng \in seeds
    /\ pc = "start"
    /\ network = <<>>
    /\ netCall = "none"
    /\ netBefore = <<>>
    /\ netArg = 0
    /\ out = NoOut
    /\ NoLayerUnderTest

\* Model.__init__: layer_sizes[0] raises IndexError when no size is given.
Model_init ==
    /\ pc = "start"
    /\ IF Len(layer_sizes) = 0
       THEN pc' = "IndexError" /\ network' = <<>>
       ELSE /\ pc' = "built"
            /\ network' = BuildLayers(layer_sizes, 2, layer_sizes[1],
                                      shared_weight, rng)
    /\ UNCHANGED <<layer_sizes, shared_weight, rng, netCall, netBefore, netArg, out,
                   layerVars>>

\* The fills that reading the buffers of net can tell apart.
NetFills(net) ==
    UNION {Fills(net[k].linear) \cup Fills(net[k].activation) : k \in 1..Len(net)}
    \cup {0}

\* What every lifecycle call leaves alone.
LifecycleFrame ==
    UNCHANGED <<layer_sizes, shared_weight, rng, pc, out, layerVars>>

Model_discretize ==
    /\ pc = "built"
    /\ network' = apply("discretize_weight", network, modules(network), 0)
    /\ netCall' = "discretize"
    /\ netBefore' = network
    /\ netArg' = 0
    /\ LifecycleFrame

Model_restore ==
    /\ pc = "built"
    /\ \E g \in NetFills(network) :
         /\ network' = apply("restore_weight", network, modules(network), g)
         /\ netArg' = g
    /\ netCall' = "restore"
    /\ netBefore' = network
    /\ LifecycleFrame

Model_clip ==
    /\ pc = "built"
    /\ network' = apply("clip_weight", network, modules(network), 0)
    /\ netCall' = "clip"
    /\ netBefore' = network
    /\ netArg' = 0
    /\ LifecycleFrame

Model_init_weights ==
    /\ pc = "built"
    /\ netCall = "none"
    /\ \E seed \in 0..MaxSeed :
         /\ network' = apply("weight_init", network, modules(network), seed)
         /\ netArg' = seed
    /\ netCall' = "init_weights"
    /\ netBefore' = network
    /\ LifecycleFrame

\* Model.forward; it changes nothing of the Model, and one call is followed.
Forward ==
    /\ pc = "built"
    /\ out = NoOut
    /\ \E x \in XShapes :
         out' = [x |-> x, res |-> Model_forward(network, layer_sizes, x)]
    /\ UNCHANGED <<layer_sizes, shared_weight, rng, pc, network, netCall,
                   netBefore, netArg, layerVars>>

InitNet == Start(SizeLists(MaxLen, MaxNetSize), {<<1>>}, {0})

NextNet ==
    Model_init \/ Model_init_weights \/ Model_discretize \/ Model_restore
    \/ Model_clip

SpecNet == InitNet /\ [][NextNet]_vars

InitShape == Start(SizeLists(MaxLen, MaxSize), SharedShapes, {0})

NextShape == Model_init \/ Forward

SpecShape == InitShape /\ [][NextShape]_vars

\* Both of the above side by side: one layer called directly, or one Model.
InitRoundTrip == Init \/ InitNet

NextRoundTrip == Next \/ NextNet

SpecRoundTrip == InitRoundTrip /\ [][NextRoundTrip]_vars

(* ------------------------------ claims -------------------------------- *)

Range(f) == {f[i] : i \in DOMAIN f}

Cells(t) == {<<i, j>> : i \in 1..Rows(t), j \in 1..Cols(t)}

\* C1: discretize() immediately followed by restore() leaves the continuous
\* weight as it was before the discretize(), on a layer called directly and
\* on every sub-layer when Model.discretize() is followed by Model.restore().
RoundTrip ==
    [][ /\ (calls # <<>> /\ calls[1] = "discretize"
              /\ calls' = <<"restore", "discretize">>)
            => layer'.weight = before.weight
        /\ (netCall = "discretize" /\ netCall' = "restore")
            => \A k \in 1..Len(netBefore) :
                 /\ network'[k].linear.weight = netBefore[k].linear.weight
                 /\ network'[k].activation.weight = netBefore[k].activation.weight
      ]_vars

\* A layer whose weight discretization changes has been discretized and restored.
RoundTripDone ==
    /\ calls = <<"restore", "discretize">>
    /\ before.weight # before.stored
    /\ layer.weight = before.stored
    /\ effective_weight(layer) # layer.weight

\* C4: every entry of a TertiaryLinear effective weight is -1, 0 or 1: 0 exactly
\* when |w| <= 0.4, 1 when w > 0.4, -1 when w < -0.4.
TernaryEffectiveWeight ==
    IsTernary(layer) =>
        LET e == effective_weight(layer)
        IN  \A c \in Cells(layer.weight) :
              LET w == layer.weight[c[1]][c[2]]
                  x == e[c[1]][c[2]]
              IN  /\ x \in {-One, 0, One}
                  /\ (x = 0) <=> (w <= Lambd /\ -w <= Lambd)
                  /\ (x = One) <=> (w > Lambd)
                  /\ (x = -One) <=> (w < -Lambd)

\* Discretizing 0.4 gave 0.
TernaryThresholdDiscretized ==
    /\ calls # <<>> /\ calls[1] = "discretize"
    /\ IsTernary(before)
    /\ before.weight[1][1] = Lambd
    /\ layer.weight[1][1] = 0

\* C5: every column of a MultiActivationModule effective weight holds one 1 and
\* 0 elsewhere, the 1 at the first index of the column's maximum coefficient.
OneHotAtFirstMaximum ==
    layer.kind = "MultiActivationModule" =>
        LET e == effective_weight(layer)
            w == layer.weight
        IN  \A c \in 1..Cols(w) :
              \E f \in 1..n_funcs :
                /\ e[f][c] = FromInt(1)
                /\ \A h \in 1..n_funcs : h # f => e[h][c] = FromInt(0)
                /\ \A h \in 1..n_funcs : ~Greater(w[h][c], w[f][c])
                /\ \A h \in 1..(f - 1) : Greater(w[f][c], w[h][c])

\* Discretizing a column whose maximum is tied at the 2nd and 4th function
\* selected the 2nd.
TiedMaximumDiscretized ==
    /\ calls # <<>> /\ calls[1] = "discretize"
    /\ before.kind = "MultiActivationModule"
    /\ before.weight[1][1] = FromInt(0)
    /\ before.weight[2][1] = FromInt(1)
    /\ before.weight[4][1] = FromInt(1)
    /\ layer.weight[2][1] = FromInt(1)
    /\ layer.weight[4][1] = FromInt(0)

NeverLost == onlyDR => (layer.weight = W0 \/ layer.stored = W0)

\* C8, amended: the same, for the sequences in which no restore() comes before
\* the first discretize() and no discretize() directly follows a discretize().
NeverLostWhenPaired ==
    (onlyDR /\ paired) => (layer.weight = W0 \/ layer.stored = W0)

\* A restored layer has been discretized again and only the buffer holds W0.
HeldByBufferOnly ==
    /\ onlyDR /\ paired
    /\ calls = <<"discretize", "restore">>
    /\ layer.weight # W0
    /\ layer.stored = W0

\* C10: clip() leaves the stored buffer alone and the effective weight after
\* it is the effective weight before it.
ClipKeepsEffectiveWeight ==
    (calls # <<>> /\ calls[1] = "clip") =>
        /\ layer.stored = before.stored
        /\ effective_weight(layer) = effective_weight(before)

\* A TertiaryLinear entry above 1 has been clamped while the buffer was in use.
ClampedWithBuffer ==
    /\ calls # <<>> /\ calls[1] = "clip"
    /\ IsTernary(before)
    /\ before.weight[1][1] > One
    /\ layer.weight[1][1] = One
    /\ before.stored # Uninit

\* The Discretizable sub-layers of a Model.
Sublayers(net) ==
    {[type |-> t, block |-> k] : t \in DiscretizableTypes, k \in 1..Len(net)}

\* The Models that visiting every module of mods once, in any order, can
\* leave: level holds the pairs <<modules visited, Model>> reached so far.
RECURSIVE Visited(_, _, _, _, _)
Visited(fn, level, mods, arg, left) ==
    IF left = 0 THEN {p[2] : p \in level}
    ELSE Visited(fn,
                 UNION {{<<p[1] \cup {v}, Visit(fn, p[2], v, arg)>> :
                            v \in mods \ p[1]} : p \in level},
                 mods, arg, left - 1)

AnyOrder(fn, net, arg) ==
    Visited(fn, {<<{}, net>>}, Sublayers(net), arg, Cardinality(Sublayers(net)))

MethodOf(call) ==
    CASE call = "discretize" -> "discretize_weight"
      [] call = "restore" -> "restore_weight"
      [] call = "clip" -> "clip_weight"

\* C9: Model.discretize(), restore() and clip() apply the layer's own operation
\* once to every TertiaryLinear and MultiActivationModule of every block and
\* change nothing else, whatever the order of the visits; after discretize()
\* every layer holds its effective weight and its buffer the weight it had.
LifecycleReachesEveryLayer ==
    netCall \in {"discretize", "restore", "clip"} =>
        /\ Len(network) = Len(netBefore)
        /\ \A k \in 1..Len(network) :
             /\ network[k].linear =
                    Method(MethodOf(netCall), netBefore[k].linear, netArg)
             /\ network[k].activation =
                    Method(MethodOf(netCall), netBefore[k].activation, netArg)
             /\ network[k].shared_weight = netBefore[k].shared_weight
             /\ netCall = "discretize" =>
                  /\ network[k].linear.weight =
                         effective_weight(netBefore[k].linear)
                  /\ network[k].linear.stored = netBefore[k].linear.weight
                  /\ network[k].activation.weight =
                         effective_weight(netBefore[k].activation)
                  /\ network[k].activation.stored = netBefore[k].activation.weight
        /\ AnyOrder(MethodOf(netCall), netBefore, netArg) = {network}

\* A Model of two blocks has been discretized and both kinds of layer changed.
TwoBlocksDiscretized ==
    /\ netCall = "discretize"
    /\ Len(network) = 2
    /\ network[1].linear.weight # netBefore[1].linear.weight
    /\ network[2].activation.weight # netBefore[2].activation.weight

RECURSIVE Sum(_, _, _)
Sum(s, from, to) == IF from > to THEN 0 ELSE s[from] + Sum(s, from + 1, to)

\* C7: block k has n_out = layer_sizes[k+1] and n_in = layer_sizes[0] plus the
\* n_out of the blocks before it, which is the width of what it receives in a
\* forward pass on an input of the declared width.
RunningWidth ==
    (pc = "built" /\ Len(layer_sizes) >= 2) =>
        /\ Len(network) = Len(layer_sizes) - 1
        /\ \A k \in 1..Len(network) :
             /\ Rows(network[k].linear.weight) = layer_sizes[k + 1]
             /\ Cols(network[k].activation.weight) = layer_sizes[k + 1]
             /\ Cols(network[k].linear.weight) =
                    layer_sizes[1] + Sum(layer_sizes, 2, k)
        /\ (out # NoOut /\ Last(out.x) = layer_sizes[1]) =>
             /\ \A k \in 1..Len(out.res.seen) :
                  out.res.seen[k] = Cols(network[k].linear.weight)
             /\ out.res.ok => Len(out.res.seen) = Len(network)

\* A forward pass through the blocks of sizes (4, 3, 2) has seen widths 4 and 7.
WidthsFourSeven ==
    /\ layer_sizes = <<4, 3, 2>>
    /\ out.res.ok
    /\ out.res.seen = <<4, 7>>

\* C2: with layer_sizes = (4, 3, 2), forward on an input of shape [batch, 4]
\* succeeds and returns shape [batch, 2].
ForwardOfBatch ==
    (pc = "built" /\ layer_sizes = <<4, 3, 2>> /\ Len(out.x) = 2 /\ out.x[2] = 4)
        => (out.res.ok /\ out.res.shape = <<out.x[1], 2>>)

\* C3: a Model given fewer than two layer sizes is not constructed.
TooFewSizesRejected == Len(layer_sizes) < 2 => pc # "built"

====
